---- MODULE Spec2Model ----
(***************************************************************************)
(* State-machine model of YouTubeAutomationAgent                           *)
(* (src/src/youtube-automation-agent.ts): the polling timer, the cycle     *)
(* findAndProcessNewEntries and the per-entry pipeline processEntry,       *)
(* running against a Notion database (the queue store).                    *)
(*                                                                         *)
(* Every `await` of an external call is one step: the step performs the    *)
(* call (its effect on the store and its outcome) and runs the synchronous *)
(* code that follows it up to the next external call.  Several cycles may  *)
(* be suspended at such points at the same time, because setInterval fires *)
(* its callback whether or not the previous callback's promise settled.    *)
(***************************************************************************)
EXTENDS Naturals, Sequences, FiniteSets, TLC

\* ------------------------------------------------------------------ bounds
NumRows == 2            \* rows of the Notion database
MaxCycles == 2          \* timer callbacks that may be suspended at one time
MaxStarts == 2          \* start() calls over one behaviour
MaxTime == 2            \* instants a publish date or the clock may denote: 0..MaxTime

\* The menu of index.ts awaits start() before it reads the next command: one
\* start() call is suspended in initializeConnections at a time.
MaxStarting == 1

Rows == 1..NumRows
Slots == 1..MaxCycles

\* ------------------------------------------------- rows of the database
\* A Drive link is a sequence of URL segments; the identifier is one segment.
FileIds == {"ABC123", "XYZ789"}

ShareableLink(id) == <<"https://drive.google.com", "/file/d/", id, "/view">>

DirectLink(id) == <<"https://drive.google.com", "/uc?export=download&id=", id>>

EmptyLink == <<>>

\* "Publish Date".date.start: absent, a parsable date, or text Date cannot parse.
ValidDates == {"2025-01-15", "2025-01-15T10:00:00.000Z"}

\* A text property of a page: an object that may hold a `title` array and a
\* `rich_text` array of items, each item given by its plain_text ("null": an
\* item without one); NoProperty is a property the page does not have.
NoProperty == [undefined |-> TRUE]

\* The property sets a row of the database may carry, numbered.
PagePool ==
    << [link |-> ShareableLink("ABC123"), date |-> "2025-01-15",
        brief |-> [title |-> <<"cat video">>]],
       [link |-> EmptyLink,               date |-> "2025-01-15",
        brief |-> [title |-> <<"">>, rich_text |-> <<"dog video">>]],
       [link |-> DirectLink("ABC123"),    date |-> "absent",
        brief |-> [rich_text |-> <<"bird video">>]],
       [link |-> ShareableLink("XYZ789"), date |-> "not-a-date",
        brief |-> NoProperty] >>

StatusNames == {"Not started", "In progress", "Done", "Error"}

\* ------------------------------------------------------------ connections
Required == {"notion", "googlecalendar", "openai", "youtube", "googledrive"}

\* The ACTIVE toolkits a connection listing may show, numbered.
ListingPool ==
    << Required, Required \ {"openai"}, Required \ {"googlecalendar"},
       Required \ {"notion"}, {} >>

Listings == { ListingPool[k] : k \in DOMAIN ListingPool }

VARIABLES
    status,           \* queue store: Status of each row
    props,            \* queue store: which property set of PagePool each row carries
    fields,           \* queue store: generated title/description and YouTube link
    isRunning,        \* YouTubeAutomationAgent.isRunning
    connections,      \* keys of YouTubeAutomationAgent.connections
    pollingInterval,  \* YouTubeAutomationAgent.pollingInterval (0: null)
    timers,           \* interval timers that are armed
    starting,         \* start() calls suspended in initializeConnections
    startCount,       \* start() calls made so far
    cyc,              \* the timer callbacks: one record per slot
    pub,              \* the publishing session of the Reel driver (README)
    world,            \* how the external services behave in this behaviour
    probe             \* a function applied on its own: its input and its result

vars == <<status, props, fields, isRunning, connections, pollingInterval,
          timers, starting, startCount, cyc, pub, world, probe>>

\* page.properties of a row: "Drive Link", "Publish Date" and "Video Brief".
pageProperties(r) == PagePool[props[r]]

NoFields == [title |-> "none", description |-> "none", link |-> "none"]

NoMeta == [title |-> "none", description |-> "none"]

\* One timer callback: where it is suspended (pc), the pages its query's filter
\* kept (each with the Status the query returned), the index of the page the
\* for-loop is at, processEntry's locals, the calls of the entry it is in
\* or just left (log), and how findAndProcessNewEntries ended (caught).
IdleSlot ==
    [ pc        |-> "idle",
      pages     |-> <<>>,
      idx       |-> 0,
      file      |-> FALSE,
      meta      |-> NoMeta,
      url       |-> "none",
      log       |-> <<>>,
      caught    |-> "none" ]

\* One run of publishInstagramReel: where it is suspended (pc), whether the
\* container call gave a creation id, the status polls issued, the last status
\* code a poll returned ("throws": the poll threw), why pollForMediaStatus gave
\* up (what it logs), the
\* CREATE_POST calls issued, the post id, the link the driver returned and the
\* error it threw.
NoSession ==
    [ pc       |-> "idle",
      creation |-> "none",
      polls    |-> 0,
      last     |-> "none",
      reason   |-> "none",
      posts    |-> 0,
      postId   |-> "none",
      link     |-> "none",
      err      |-> "none" ]

\* The behaviour of the services the agent calls.  `calls`: the Notion, Calendar
\* and YouTube calls; `download`: GOOGLEDRIVE_DOWNLOAD_FILE; each "any" (a call
\* may succeed or throw), "ok" or "throws".  `textgen`: what the chat completion
\* gives back, "any" or one kind of response.  `listing`: which listing of
\* ListingPool a connection listing shows now (0: any of them).  `results`:
\* whether the query's response carries the "rows" of the database or "none".  `caller`: who calls start() and stop(), the "menu" of
\* index.ts or code that calls the public methods "direct", without awaiting.
AnyWorld ==
    [calls |-> "any", download |-> "any", textgen |-> "any",
     listing |-> 0, caller |-> "menu", results |-> "rows"]

\* No function is being applied on its own.
NoProbe == [fn |-> "none"]

Init ==
    /\ pub = NoSession
    /\ world = AnyWorld
    /\ probe = NoProbe
    /\ status = [r \in Rows |-> "Not started"]
    /\ props \in [Rows -> DOMAIN PagePool]
    /\ fields = [r \in Rows |-> NoFields]
    /\ isRunning = FALSE
    /\ connections = {}
    /\ pollingInterval = 0
    /\ timers = {}
    /\ starting = 0
    /\ startCount = 0
    /\ cyc = [c \in Slots |-> IdleSlot]

\* ------------------------------------------------------- entry extraction
\* The regex /\/file\/d\/([a-zA-Z0-9_-]+)/: the first "/file/d/" segment that an
\* identifier follows; the match's group is that identifier.
FileIdMatches(url) ==
    { i \in 1..Len(url) : i < Len(url) /\ url[i] = "/file/d/" /\ url[i + 1] \in FileIds }

extractFileIdFromDriveUrl(url) ==
    IF url = EmptyLink
    THEN [threw |-> TRUE, id |-> ""]
    ELSE IF FileIdMatches(url) # {}
         THEN LET i == CHOOSE j \in FileIdMatches(url) :
                           \A k \in FileIdMatches(url) : j <= k
              IN  [threw |-> FALSE, id |-> url[i + 1]]
         ELSE [threw |-> TRUE, id |-> ""]

\* publishDateStr ? new Date(publishDateStr).toISOString() : new Date().toISOString();
\* toISOString throws a RangeError on an invalid date.
\* A date-only text is midnight UTC of that day; a timestamp is itself.
toISOString(date) ==
    IF date = "2025-01-15" THEN "2025-01-15T00:00:00.000Z" ELSE date

finalPublishDate(date) ==
    IF date = "absent"
    THEN [threw |-> FALSE, iso |-> "now"]
    ELSE IF date \in ValidDates
         THEN [threw |-> FALSE, iso |-> toISOString(date)]
         ELSE [threw |-> TRUE, iso |-> ""]

\* item?.plain_text || ""
PlainText(item) == IF item = "null" THEN "" ELSE item

\* getTextFromProperty: the first item of a non-empty title array decides; the
\* rich text is read only when there is no title array or it is empty.
getTextFromProperty(property) ==
    IF "undefined" \in DOMAIN property
    THEN ""
    ELSE IF "title" \in DOMAIN property /\ Len(property.title) > 0
         THEN PlainText(property.title[1])
         ELSE IF "rich_text" \in DOMAIN property /\ Len(property.rich_text) > 0
              THEN PlainText(property.rich_text[1])
              ELSE ""

extractVideoData(r, p) ==
    LET d == finalPublishDate(p.date)
        f == extractFileIdFromDriveUrl(p.link)
    IN  [ threw       |-> d.threw \/ f.threw,
          id          |-> r,
          videoBrief  |-> getTextFromProperty(p.brief),
          driveFileId |-> f.id,
          publishDate |-> d.iso ]

\* ------------------------------------------------------------- lifecycle
\* What a connection listing may show now.
ListingsNow ==
    IF world.listing = 0 THEN Listings ELSE {ListingPool[world.listing]}

\* The start() calls that may be suspended at one time: the menu awaits each;
\* a direct caller need not.
PendingStarts == IF world.caller = "menu" THEN MaxStarting ELSE MaxStarts

\* Variant of start() without the isRunning check.
StartWithoutRunningCheck ==
    /\ starting < PendingStarts
    /\ startCount < MaxStarts
    /\ startCount' = startCount + 1
    /\ starting' = starting + 1
    /\ UNCHANGED <<status, props, fields, pub, world, probe, isRunning, connections,
                   pollingInterval, timers, cyc>>

\* start(), up to its await of initializeConnections; it returns at once when
\* the agent is already running.
Start ==
    /\ starting < PendingStarts
    /\ startCount < MaxStarts
    /\ startCount' = startCount + 1
    /\ starting' = IF isRunning THEN starting ELSE starting + 1
    /\ UNCHANGED <<status, props, fields, pub, world, probe, isRunning, connections,
                   pollingInterval, timers, cyc>>

\* The handle setInterval returns: one no armed timer has and pollingInterval
\* does not hold.
NewTimer ==
    CHOOSE h \in 1..(MaxStarts + 1) :
        /\ h \notin timers \cup {pollingInterval}
        /\ \A g \in 1..(MaxStarts + 1) :
               g \notin timers \cup {pollingInterval} => h <= g

\* Variant of start() that sets isRunning before it awaits
\* initializeConnections: a failed initialization leaves the flag set.
StartResumeFlagSetFirst ==
    /\ starting > 0
    /\ starting' = starting - 1
    /\ \E listing \in ListingsNow :
         IF listing = {}
         THEN /\ isRunning' = TRUE
              /\ UNCHANGED <<connections, pollingInterval, timers>>
         ELSE /\ connections' = connections \cup listing
              /\ isRunning' = TRUE
              /\ pollingInterval' = NewTimer
              /\ timers' = timers \cup {NewTimer}
    /\ UNCHANGED <<status, props, fields, pub, world, probe, startCount, cyc>>

\* The connection listing arrives: initializeConnections fills the map (it only
\* warns about a missing required toolkit) and throws when nothing is ACTIVE;
\* start() then sets isRunning and pollNotion() arms a new interval timer.
StartResume ==
    /\ starting > 0
    /\ starting' = starting - 1
    /\ \E listing \in ListingsNow :
         IF listing = {}
         THEN UNCHANGED <<isRunning, connections, pollingInterval, timers>>
         ELSE /\ connections' = connections \cup listing
              /\ isRunning' = TRUE
              /\ pollingInterval' = NewTimer
              /\ timers' = timers \cup {NewTimer}
    /\ UNCHANGED <<status, props, fields, pub, world, probe, startCount, cyc>>

\* Variant of stop() that also drops the callbacks that are suspended.
StopAbortingCycles ==
    /\ world.caller = "menu" => starting = 0
    /\ IF isRunning
       THEN /\ isRunning' = FALSE
            /\ timers' = timers \ {pollingInterval}
            /\ cyc' = [c \in Slots |-> IdleSlot]
       ELSE UNCHANGED <<isRunning, timers, cyc>>
    /\ UNCHANGED <<status, props, fields, pub, world, probe, connections, pollingInterval,
                   starting, startCount>>

\* stop(): returns at once when the agent is not running; otherwise clears the
\* flag and the timer pollingInterval refers to.  The menu offers it when no
\* start() is pending.
Stop ==
    /\ world.caller = "menu" => starting = 0
    /\ IF isRunning
       THEN /\ isRunning' = FALSE
            /\ timers' = timers \ {pollingInterval}
       ELSE UNCHANGED <<isRunning, timers>>
    /\ UNCHANGED <<status, props, fields, pub, world, probe, connections, pollingInterval,
                   starting, startCount, cyc>>

\* ------------------------------------------------------ the polling cycle
FreeSlots == { c \in Slots : cyc[c].pc \in {"idle", "finished"} }

\* response?.data?.response_data?.results || []: every row, with its Status, or
\* nothing when the response carries no results.
allPages ==
    IF world.results = "none"
    THEN <<>>
    ELSE [i \in 1..NumRows |-> [id |-> i, status |-> status[i]]]

\* Variant of the filter that also takes rows marked Error (a retry of failures).
IsUnprocessedOrError(st) == st \in {"Not started", "Error"}

\* page.properties?.Status?.status?.name === "Not started"
IsUnprocessed(st) == st = "Not started"

\* Variant of the cycle that hands every page of the result to processEntry.
unprocessedPagesUnfiltered(results) == results

\* allPages.filter(...) over the query's result, in the result's order.
unprocessedPages(results) ==
    SelectSeq(results, LAMBDA page : IsUnprocessed(page.status))

\* The callback's promise settles: the filtered pages, the index the loop
\* reached, the calls of the last entry and the way the cycle ended stay on
\* record until the slot is reused.
Settle(s, how) ==
    [IdleSlot EXCEPT !.pc = "finished", !.pages = s.pages, !.idx = s.idx,
                     !.file = s.file, !.log = s.log, !.caught = how]

\* Variant of the handler that never returns (it waits for a retry that does
\* not come), so the callback's promise never settles.
CycleCaughtNeverSettles(s, from) ==
    [IdleSlot EXCEPT !.pc = "stuck", !.pages = s.pages, !.idx = s.idx,
                     !.file = s.file, !.log = s.log, !.caught = from]

\* The error handler of findAndProcessNewEntries (line 147): the cycle ends.
\* `from` is "poll" (the connection check or the query threw) or "entry" (an
\* exception left processEntry).
CycleCaught(s, from) == Settle(s, from)

\* A timer fires: the callback returns at once unless isRunning; otherwise
\* findAndProcessNewEntries starts and issues NOTION_QUERY_DATABASE.
Tick(c) ==
    /\ timers # {}
    /\ isRunning
    /\ c \in FreeSlots
    /\ \A d \in FreeSlots : c <= d
    /\ cyc' = [cyc EXCEPT ![c] =
                 IF "notion" \in connections
                 THEN [IdleSlot EXCEPT !.pc = "query"]
                 ELSE CycleCaught(IdleSlot, "poll")]
    /\ UNCHANGED <<status, props, fields, pub, world, probe, isRunning, connections,
                   pollingInterval, timers, starting, startCount>>

\* Variant that starts an entry with the download, without marking the row first.
FirstStepDownload == "download"

\* The external call processEntry issues first (line 159).
FirstStep == "inProgress"

\* Variant of the order that marks the row Done right after the upload, without
\* writing the link.
StepAfterSkippingLink(step) ==
    CASE step = "inProgress" -> "download"
      [] step = "download"   -> "schedule"
      [] step = "schedule"   -> "generate"
      [] step = "generate"   -> "writeMeta"
      [] step = "writeMeta"  -> "upload"
      [] step = "upload"     -> "done"
      [] step = "writeLink"  -> "done"

\* The call that follows each call that succeeded (lines 159-169).
StepAfter(step) ==
    CASE step = "inProgress" -> "download"
      [] step = "download"   -> "schedule"
      [] step = "schedule"   -> "generate"
      [] step = "generate"   -> "writeMeta"
      [] step = "writeMeta"  -> "upload"
      [] step = "upload"     -> "writeLink"
      [] step = "writeLink"  -> "done"

\* for (const page of unprocessedPages) await this.processEntry(page): the loop's
\* next iteration, run in the same turn as the query's response or the previous
\* entry's return.  processEntry begins with extractVideoData, outside its try
\* block, so what extraction throws reaches the handler of
\* findAndProcessNewEntries; otherwise the entry's first call is issued.
EnterNext(s) ==
    IF s.idx = Len(s.pages)
    THEN Settle(s, "none")
    ELSE LET page == s.pages[s.idx + 1]
             v == extractVideoData(page.id, pageProperties(page.id))
             t == [s EXCEPT !.idx = s.idx + 1,
                            !.log = <<>>,
                            !.meta = NoMeta,
                            !.url = "none"]
         IN  IF v.threw
             THEN CycleCaught(t, "entry")
             ELSE [t EXCEPT !.pc = FirstStep]

\* The query's response arrives: the pages are filtered and the first one, if
\* any, is handed to processEntry.
QueryOk(c) ==
    /\ cyc[c].pc = "query"
    /\ cyc' = [cyc EXCEPT ![c] =
                 EnterNext([cyc[c] EXCEPT !.pages = unprocessedPages(allPages)])]
    /\ UNCHANGED <<status, props, fields, pub, world, probe, isRunning, connections,
                   pollingInterval, timers, starting, startCount>>

\* The query throws: findAndProcessNewEntries catches and logs it.
QueryThrows(c) ==
    /\ cyc[c].pc = "query"
    /\ world.calls # "ok"
    /\ cyc' = [cyc EXCEPT ![c] = CycleCaught(cyc[c], "poll")]
    /\ UNCHANGED <<status, props, fields, pub, world, probe, isRunning, connections,
                   pollingInterval, timers, starting, startCount>>

\* ----------------------------------------------------------- processEntry
\* How a call through a toolkit's connection can end: without the connection the
\* method throws before it issues anything.
Outcomes(toolkit) ==
    IF toolkit \in connections
    THEN LET mode == IF toolkit = "googledrive" THEN world.download ELSE world.calls
         IN  CASE mode = "ok"     -> {"ok"}
               [] mode = "throws" -> {"fail"}
               [] OTHER           -> {"ok", "fail"}
    ELSE {"unissued"}

\* A record of one call of the entry: the call and how it ended.
Entry(op, res) == [op |-> op, res |-> res]

\* The call succeeded: on to the next call.
Advance(s, res) ==
    [s EXCEPT !.log = Append(@, Entry(s.pc, res)), !.pc = StepAfter(s.pc)]

\* Variant of the catch block that only logs the error and returns.
CatchWithoutErrorWrite(s, res) ==
    EnterNext([s EXCEPT !.log = Append(@, Entry(s.pc, res)), !.file = FALSE])

\* The call threw inside the try block: the catch block issues the Error write.
Catch(s, res) ==
    [s EXCEPT !.log = Append(@, Entry(s.pc, res)), !.pc = "error"]

\* Variant of the finally block that only logs.
FinallyWithoutUnlink(s) == s

\* finally: if (localVideoPath && fs.existsSync(localVideoPath)) unlinkSync.
\* localVideoPath is set exactly when the download returned a file.
Finally(s) == [s EXCEPT !.file = FALSE]

\* The row processEntry is working on (videoData.id).
Cur(c) == cyc[c].pages[cyc[c].idx].id

\* Variant of the update that adds a text to what the property holds.
NOTION_UPDATE_PAGE_Appending(old, properties, key) ==
    IF key \in DOMAIN properties
    THEN IF key \in {"title", "description"} /\ old # "none"
         THEN old \o properties[key]
         ELSE properties[key]
    ELSE old

\* NOTION_UPDATE_PAGE with { page_id, properties }, for one property of the
\* page: it takes the value `properties` gives it, and keeps its own when
\* `properties` does not name it.
NOTION_UPDATE_PAGE(old, properties, key) ==
    IF key \in DOMAIN properties THEN properties[key] ELSE old

\* updateNotionPage applied to the store.
updateNotionPage(r, properties) ==
    /\ status' = [status EXCEPT ![r] = NOTION_UPDATE_PAGE(@, properties, "Status")]
    /\ fields' = [fields EXCEPT ![r] =
                     [ title       |-> NOTION_UPDATE_PAGE(@.title, properties, "title"),
                       description |-> NOTION_UPDATE_PAGE(@.description, properties,
                                                          "description"),
                       link        |-> NOTION_UPDATE_PAGE(@.link, properties, "link") ]]

\* Variant of the status update that also clears what was generated.
StatusPropertiesClearingRow(name) ==
    [Status |-> name, title |-> "none", description |-> "none", link |-> "none"]

\* updateNotionStatus: { Status: { status: { name } } }
StatusProperties(name) == [Status |-> name]

\* Variant that writes each text into the other property.
MetadataPropertiesSwapped(title, description) ==
    [title |-> description, description |-> title]

\* updateNotionWithMetadata: "Generated Title" and "Generated Description".
MetadataProperties(title, description) ==
    [title |-> title, description |-> description]

\* updateNotionWithYoutubeLink: "YouTube Link".
LinkProperties(url) == [link |-> url]

\* updateNotionStatus applied to the store.
WriteStatus(r, new) == updateNotionPage(r, StatusProperties(new))

Frame == <<props, pub, world, probe, isRunning, connections, pollingInterval,
           timers, starting, startCount>>

\* await this.updateNotionStatus(videoData.id, "In progress")
InProgressWrite(c) ==
    /\ cyc[c].pc = "inProgress"
    /\ \E res \in Outcomes("notion") :
         IF res = "ok"
         THEN /\ WriteStatus(Cur(c), "In progress")
              /\ cyc' = [cyc EXCEPT ![c] = Advance(@, res)]
         ELSE /\ cyc' = [cyc EXCEPT ![c] = Catch(@, res)]
              /\ UNCHANGED <<status, fields>>
    /\ UNCHANGED Frame

\* Variant that returns an empty path when the download fails.
DownloadResultSwallowingError(res) ==
    IF res = "ok"
    THEN [threw |-> FALSE, file |-> TRUE]
    ELSE [threw |-> FALSE, file |-> FALSE]

\* downloadVideoFromDrive's result: the path of the file the call stored; it
\* throws when the connection is missing, the call throws or the response
\* carries no file path ("fail").
DownloadResult(res) ==
    IF res = "ok"
    THEN [threw |-> FALSE, file |-> TRUE]
    ELSE [threw |-> TRUE, file |-> FALSE]

\* localVideoPath = await this.downloadVideoFromDrive(videoData.driveFileId)
Download(c) ==
    /\ cyc[c].pc = "download"
    /\ \E res \in Outcomes("googledrive") :
         cyc' = [cyc EXCEPT ![c] =
                   IF DownloadResult(res).threw
                   THEN Catch(@, res)
                   ELSE Advance([@ EXCEPT !.file = DownloadResult(res).file], res)]
    /\ UNCHANGED <<status, fields, Frame>>

\* Variant of scheduleEvent that logs a failure and returns: the entry goes on
\* without its calendar event.
ScheduleEventBestEffort(c) ==
    /\ cyc[c].pc = "schedule"
    /\ \E res \in Outcomes("googlecalendar") :
         cyc' = [cyc EXCEPT ![c] = Advance(@, res)]
    /\ UNCHANGED <<status, fields, Frame>>

\* await this.scheduleEvent(videoData): it throws when the connection is missing
\* and rethrows what GOOGLECALENDAR_CREATE_EVENT throws.
ScheduleEvent(c) ==
    /\ cyc[c].pc = "schedule"
    /\ \E res \in Outcomes("googlecalendar") :
         cyc' = [cyc EXCEPT ![c] =
                   IF res = "ok" THEN Advance(@, res) ELSE Catch(@, res)]
    /\ UNCHANGED <<status, fields, Frame>>

\* What the chat completion may give back: the JSON text of an object with a
\* title and a description, an empty text, a text that is not JSON, or it throws.
Responses == {"json", "empty", "not_json", "throws"}

\* Variant of the fallback whose title is the brief alone.
FallbackMetaBriefOnly(brief) ==
    [title |-> brief, description |-> "Video about: " \o brief]

\* The catch block of generateMetadata (lines 291-297).
FallbackMeta(brief) ==
    [ title       |-> brief \o " - Automated Upload",
      description |-> "Video about: " \o brief ]

\* JSON.parse of the "json" response.
ParsedMeta == [title |-> "generated title", description |-> "generated description"]

\* What the completion may also give back: the JSON text of an object that
\* lacks one of the two keys.
PartialResponses == {"json_no_title", "json_no_description"}

\* generateMetadata's result for a response: what JSON.parse returns (line 290;
\* a key the object lacks reads as undefined), or the fallback when the call
\* throws, the text is empty or JSON.parse throws.
MetadataOf(resp, brief) ==
    CASE resp = "json" -> ParsedMeta
      [] resp = "json_no_title" -> [ParsedMeta EXCEPT !.title = "undefined"]
      [] resp = "json_no_description" ->
             [ParsedMeta EXCEPT !.description = "undefined"]
      [] OTHER -> FallbackMeta(brief)

\* The responses the chat completion gives in this world: one kind when the
\* world fixes it, else any of Responses.
ResponsesNow ==
    IF world.textgen = "any" THEN Responses ELSE {world.textgen}

\* const { title, description } = await this.generateMetadata(videoData): the
\* missing-connection check is outside generateMetadata's own try block.
GenerateMetadata(c) ==
    /\ cyc[c].pc = "generate"
    /\ IF "openai" \in connections
       THEN \E resp \in ResponsesNow :
              cyc' = [cyc EXCEPT ![c] =
                        Advance([@ EXCEPT !.meta =
                                    MetadataOf(resp,
                                        getTextFromProperty(pageProperties(Cur(c)).brief))],
                                "ok")]
       ELSE cyc' = [cyc EXCEPT ![c] = Catch(@, "unissued")]
    /\ UNCHANGED <<status, fields, Frame>>

\* await this.updateNotionWithMetadata(videoData.id, title, description)
WriteMetadata(c) ==
    /\ cyc[c].pc = "writeMeta"
    /\ \E res \in Outcomes("notion") :
         IF res = "ok"
         THEN /\ updateNotionPage(Cur(c),
                     MetadataProperties(cyc[c].meta.title, cyc[c].meta.description))
              /\ cyc' = [cyc EXCEPT ![c] = Advance(@, res)]
         ELSE /\ cyc' = [cyc EXCEPT ![c] = Catch(@, res)]
              /\ UNCHANGED <<status, fields>>
    /\ UNCHANGED Frame

\* How YOUTUBE_UPLOAD_VIDEO can end: as any call, or with a response that
\* carries no video id.
UploadOutcomes ==
    IF "youtube" \in connections
    THEN IF world.calls = "any" THEN {"ok", "no_id", "fail"} ELSE Outcomes("youtube")
    ELSE {"unissued"}

\* Variant that returns a text in place of the link when the response has no id.
UploadResultWithoutIdCheck(res) ==
    IF res = "ok"
    THEN [threw |-> FALSE, url |-> "watch?v=id"]
    ELSE IF res = "no_id"
         THEN [threw |-> FALSE, url |-> "Could not get a valid YouTube URL."]
         ELSE [threw |-> TRUE, url |-> "none"]

\* uploadToYouTube's result: the watch link built from the response's video id;
\* it throws when the call throws or the response carries no id.
UploadResult(res) ==
    IF res = "ok"
    THEN [threw |-> FALSE, url |-> "watch?v=id"]
    ELSE [threw |-> TRUE, url |-> "none"]

\* youtubeUrl = await this.uploadToYouTube(...)
UploadToYouTube(c) ==
    /\ cyc[c].pc = "upload"
    /\ \E res \in UploadOutcomes :
         cyc' = [cyc EXCEPT ![c] =
                   IF UploadResult(res).threw
                   THEN Catch(@, res)
                   ELSE Advance([@ EXCEPT !.url = UploadResult(res).url], res)]
    /\ UNCHANGED <<status, fields, Frame>>

\* await this.updateNotionWithYoutubeLink(videoData.id, youtubeUrl)
WriteLink(c) ==
    /\ cyc[c].pc = "writeLink"
    /\ \E res \in Outcomes("notion") :
         IF res = "ok"
         THEN /\ updateNotionPage(Cur(c), LinkProperties(cyc[c].url))
              /\ cyc' = [cyc EXCEPT ![c] = Advance(@, res)]
         ELSE /\ cyc' = [cyc EXCEPT ![c] = Catch(@, res)]
              /\ UNCHANGED <<status, fields>>
    /\ UNCHANGED Frame

\* await this.updateNotionStatus(videoData.id, "Done"), then finally, return and
\* the loop's next iteration.
DoneWrite(c) ==
    /\ cyc[c].pc = "done"
    /\ \E res \in Outcomes("notion") :
         IF res = "ok"
         THEN /\ WriteStatus(Cur(c), "Done")
              /\ cyc' = [cyc EXCEPT ![c] =
                           EnterNext(Finally(
                               [cyc[c] EXCEPT
                                   !.log = Append(cyc[c].log, Entry("done", res))]))]
         ELSE /\ cyc' = [cyc EXCEPT ![c] = Catch(@, res)]
              /\ UNCHANGED <<status, fields>>
    /\ UNCHANGED Frame

\* catch: await this.updateNotionStatus(videoData.id, "Error"), then finally,
\* return and the loop's next iteration.  When this write throws, the exception
\* leaves processEntry (after finally) and ends the cycle.
ErrorWrite(c) ==
    /\ cyc[c].pc = "error"
    /\ \E res \in Outcomes("notion") :
         IF res = "ok"
         THEN /\ WriteStatus(Cur(c), "Error")
              /\ cyc' = [cyc EXCEPT ![c] =
                           EnterNext(Finally(
                               [cyc[c] EXCEPT
                                   !.log = Append(cyc[c].log, Entry("error", res))]))]
         ELSE /\ cyc' = [cyc EXCEPT ![c] =
                           CycleCaught(Finally(
                               [cyc[c] EXCEPT
                                   !.log = Append(cyc[c].log, Entry("error", res))]),
                               "entry")]
              /\ UNCHANGED <<status, fields>>
    /\ UNCHANGED Frame

\* --------------------------------------------------------- specification
Next ==
    \/ Start
    \/ StartResume
    \/ Stop
    \/ \E c \in Slots : Tick(c)
    \/ \E c \in Slots : QueryOk(c)
    \/ \E c \in Slots : QueryThrows(c)
    \/ \E c \in Slots : InProgressWrite(c)
    \/ \E c \in Slots : Download(c)
    \/ \E c \in Slots : ScheduleEvent(c)
    \/ \E c \in Slots : GenerateMetadata(c)
    \/ \E c \in Slots : WriteMetadata(c)
    \/ \E c \in Slots : UploadToYouTube(c)
    \/ \E c \in Slots : WriteLink(c)
    \/ \E c \in Slots : DoneWrite(c)
    \/ \E c \in Slots : ErrorWrite(c)

Spec == Init /\ [][Next]_vars

\* The agent left running with a query that succeeds: no stop(), no failing
\* query.  The event loop resumes every suspended callback whose call has
\* ended, and the interval timer keeps firing.
CycleStep(c) ==
    \/ QueryOk(c)
    \/ InProgressWrite(c)
    \/ Download(c)
    \/ ScheduleEvent(c)
    \/ GenerateMetadata(c)
    \/ WriteMetadata(c)
    \/ UploadToYouTube(c)
    \/ WriteLink(c)
    \/ DoneWrite(c)
    \/ ErrorWrite(c)

LiveNext ==
    \/ Start
    \/ StartResume
    \/ \E c \in Slots : Tick(c)
    \/ \E c \in Slots : CycleStep(c)

LiveSpec ==
    /\ Init
    /\ [][LiveNext]_vars
    /\ WF_vars(Start)
    /\ WF_vars(StartResume)
    /\ WF_vars(\E c \in Slots : Tick(c))
    /\ \A c \in Slots : WF_vars(CycleStep(c))

\* ------------------------------------------- start() and stop() on their own
\* Between two listings a connection is authorised, expires or is removed: the
\* next listing shows another set of ACTIVE toolkits.
ListingChanges ==
    /\ \E k \in DOMAIN ListingPool :
         /\ world.listing # k
         /\ world' = [world EXCEPT !.listing = k]
    /\ UNCHANGED <<status, props, fields, pub, probe, isRunning, connections,
                   pollingInterval, timers, starting, startCount, cyc>>

\* A new agent over a database whose rows were all processed, with one listing
\* on offer, driven by the menu.
RestartInit ==
    /\ pub = NoSession
    /\ \E k \in DOMAIN ListingPool :
         world = [AnyWorld EXCEPT !.listing = k]
    /\ probe = NoProbe
    /\ status \in [Rows -> {"Done", "Error"}]
    /\ props = [r \in Rows |-> 1]
    /\ fields = [r \in Rows |-> NoFields]
    /\ isRunning = FALSE
    /\ connections = {}
    /\ pollingInterval = 0
    /\ timers = {}
    /\ starting = 0
    /\ startCount = 0
    /\ cyc = [c \in Slots |-> IdleSlot]

\* start(), stop(), the timer and the query, while the listing changes.
LifecycleNext ==
    \/ Start
    \/ StartResume
    \/ Stop
    \/ ListingChanges
    \/ \E c \in Slots : Tick(c)
    \/ \E c \in Slots : QueryOk(c)
    \/ \E c \in Slots : QueryThrows(c)

RestartSpec == RestartInit /\ [][LifecycleNext]_vars

\* The same agent with start() and stop() called directly: a call is made
\* whether or not an earlier start() has returned.
ApiInit ==
    /\ pub = NoSession
    /\ \E k \in DOMAIN ListingPool :
         world = [AnyWorld EXCEPT !.listing = k, !.caller = "direct"]
    /\ probe = NoProbe
    /\ status \in [Rows -> {"Done", "Error"}]
    /\ props = [r \in Rows |-> 1]
    /\ fields = [r \in Rows |-> NoFields]
    /\ isRunning = FALSE
    /\ connections = {}
    /\ pollingInterval = 0
    /\ timers = {}
    /\ starting = 0
    /\ startCount = 0
    /\ cyc = [c \in Slots |-> IdleSlot]

ApiSpec == ApiInit /\ [][LifecycleNext]_vars

\* The agent left running after start() returned (with the toolkits of any
\* listing that lets it return), with a query that may throw and whose response
\* carries the rows or nothing: no stop().
PollInit ==
    /\ pub = NoSession
    /\ world \in {AnyWorld, [AnyWorld EXCEPT !.results = "none"]}
    /\ probe = NoProbe
    /\ status = [r \in Rows |-> "Not started"]
    /\ props \in [Rows -> DOMAIN PagePool]
    /\ fields = [r \in Rows |-> NoFields]
    /\ isRunning = TRUE
    /\ connections \in Listings \ {{}}
    /\ pollingInterval = 1
    /\ timers = {1}
    /\ starting = 0
    /\ startCount = 1
    /\ cyc = [c \in Slots |-> IdleSlot]

PollNext ==
    \/ \E c \in Slots : Tick(c)
    \/ \E c \in Slots : CycleStep(c)
    \/ \E c \in Slots : QueryThrows(c)

PollSpec ==
    /\ PollInit
    /\ [][PollNext]_vars
    /\ WF_vars(\E c \in Slots : Tick(c))
    /\ \A c \in Slots : WF_vars(CycleStep(c) \/ QueryThrows(c))

\* ------------------------------------------- the Reel driver (README.md)
\* publishInstagramReel and pollForMediaStatus, called by processEntry for one
\* row after its "In progress" write, download and caption steps.
maxRetries == 30

\* The row whose Reel is being published.
PubRow == 1

\* data.status_code of INSTAGRAM_GET_POST_STATUS; "absent" is a response
\* without the field.
StatusCodes == {"FINISHED", "ERROR", "IN_PROGRESS", "EXPIRED", "absent"}

\* How a call that returns an identifier can end.
IdOutcomes == {"id", "no_id", "throws"}

\* How INSTAGRAM_GET_USER_MEDIA (limit: 10) can end: the post is among the items
\* with or without a permalink, it is not among them, the response holds no
\* array, or the call throws.
MediaOutcomes == {"match", "match_no_permalink", "no_match", "not_array", "throws"}

\* The state processEntry is in when it calls publishInstagramReel.
PubInit ==
    /\ pub = [NoSession EXCEPT !.pc = "createContainer"]
    /\ status = [r \in Rows |-> IF r = PubRow THEN "In progress" ELSE "Not started"]
    /\ props = [r \in Rows |-> 1]
    /\ world = AnyWorld
    /\ probe = NoProbe
    /\ fields = [r \in Rows |-> NoFields]
    /\ isRunning = TRUE
    /\ connections = {"notion", "openai", "instagram", "googledrive"}
    /\ pollingInterval = 0
    /\ timers = {}
    /\ starting = 0
    /\ startCount = 1
    /\ cyc = [c \in Slots |-> IdleSlot]

PubFrame == <<props, world, probe, isRunning, connections, pollingInterval,
              timers, starting, startCount, cyc>>

\* publishInstagramReel throws: processEntry's catch block issues the Error write.
Throw(s, message) == [s EXCEPT !.pc = "error", !.err = message]

\* INSTAGRAM_CREATE_MEDIA_CONTAINER, then the creation_id check; with an id the
\* loop of pollForMediaStatus issues its first poll.
CreateMediaContainer ==
    /\ pub.pc = "createContainer"
    /\ \E res \in IdOutcomes :
         pub' = IF res = "id"
                THEN [pub EXCEPT !.creation = "id", !.pc = "poll"]
                ELSE IF res = "no_id"
                     THEN Throw(pub, "Failed to get creation_id from Instagram container response.")
                     ELSE Throw(pub, "call failed")
    /\ UNCHANGED <<status, fields, PubFrame>>

\* Variant of the loop's test that allows one more pass.
BudgetLeftInclusive(i) == i <= maxRetries

\* for (let i = 0; i < maxRetries; i++)
BudgetLeft(i) == i < maxRetries

\* Variant that goes on polling after ERROR.
PollVerdictErrorAsUnknown(statusCode) ==
    IF statusCode = "FINISHED" THEN "ready" ELSE "retry"

\* What pollForMediaStatus does with a status code: FINISHED returns true, ERROR
\* returns false, anything else waits and polls again.
PollVerdict(statusCode) ==
    IF statusCode = "FINISHED"
    THEN "ready"
    ELSE IF statusCode = "ERROR" THEN "failed" ELSE "retry"

\* if (!isReady) throw ...: pollForMediaStatus returns false whatever made it
\* give up, and line 370 throws this error.
ProcessingError(reason) == "Media processing failed or timed out."

\* pollForMediaStatus returned false for `reason`.
GiveUp(s, reason) ==
    [Throw(s, ProcessingError(reason)) EXCEPT !.reason = reason]

\* One INSTAGRAM_GET_POST_STATUS call of the loop with what follows it: the
\* return, or the delay and the loop's test.
PollForMediaStatus ==
    /\ pub.pc = "poll"
    /\ \E code \in StatusCodes \cup {"throws"} :
         LET polled == [pub EXCEPT !.polls = pub.polls + 1]
         IN  pub' = IF code = "throws"
                    THEN Throw([polled EXCEPT !.last = "throws"], "call failed")
                    ELSE LET seen == [polled EXCEPT !.last = code]
                         IN  CASE PollVerdict(code) = "ready" ->
                                    [seen EXCEPT !.pc = "createPost"]
                               [] PollVerdict(code) = "failed" ->
                                    GiveUp(seen, "remote_error")
                               [] OTHER ->
                                    IF BudgetLeft(seen.polls)
                                    THEN seen
                                    ELSE GiveUp(seen, "timeout")
    /\ UNCHANGED <<status, fields, PubFrame>>

\* INSTAGRAM_CREATE_POST, then the post id check.
CreatePost ==
    /\ pub.pc = "createPost"
    /\ \E res \in IdOutcomes :
         LET called == [pub EXCEPT !.posts = pub.posts + 1]
         IN  pub' = IF res = "id"
                    THEN [called EXCEPT !.postId = "id", !.pc = "getUserMedia"]
                    ELSE IF res = "no_id"
                         THEN Throw(called, "Failed to get post ID after publishing.")
                         ELSE Throw(called, "call failed")
    /\ UNCHANGED <<status, fields, PubFrame>>

\* The link publishInstagramReel returns for what the lookup found.
LinkFor(res) ==
    IF res = "match" THEN "permalink" ELSE "https://www.instagram.com/"

\* INSTAGRAM_GET_USER_MEDIA, the search for the post and the return of the link.
GetUserMedia ==
    /\ pub.pc = "getUserMedia"
    /\ \E res \in MediaOutcomes :
         pub' = IF res = "throws"
                THEN Throw(pub, "call failed")
                ELSE [pub EXCEPT !.link = LinkFor(res), !.pc = "writeLink"]
    /\ UNCHANGED <<status, fields, PubFrame>>

\* README: the Notion writes do not check the connection first.
Writes == {"ok", "fail"}

\* await this.updateNotionWithLink(instaData.id, permalink)
UpdateNotionWithLink ==
    /\ pub.pc = "writeLink"
    /\ \E res \in Writes :
         IF res = "ok"
         THEN /\ updateNotionPage(PubRow, LinkProperties(pub.link))
              /\ pub' = [pub EXCEPT !.pc = "done"]
         ELSE /\ pub' = Throw(pub, "call failed")
              /\ UNCHANGED <<status, fields>>
    /\ UNCHANGED PubFrame

\* await this.updateNotionStatus(instaData.id, "Done")
PublishedDone ==
    /\ pub.pc = "done"
    /\ \E res \in Writes :
         IF res = "ok"
         THEN /\ WriteStatus(PubRow, "Done")
              /\ pub' = [pub EXCEPT !.pc = "finished"]
         ELSE /\ pub' = Throw(pub, "call failed")
              /\ UNCHANGED <<status, fields>>
    /\ UNCHANGED PubFrame

\* catch: await this.updateNotionStatus(instaData.id, "Error")
PublishFailed ==
    /\ pub.pc = "error"
    /\ \E res \in Writes :
         /\ IF res = "ok"
            THEN WriteStatus(PubRow, "Error")
            ELSE UNCHANGED <<status, fields>>
         /\ pub' = [pub EXCEPT !.pc = "finished"]
    /\ UNCHANGED PubFrame

PubNext ==
    \/ CreateMediaContainer
    \/ PollForMediaStatus
    \/ CreatePost
    \/ GetUserMedia
    \/ UpdateNotionWithLink
    \/ PublishedDone
    \/ PublishFailed

PublishSpec == PubInit /\ [][PubNext]_vars

\* ------------------------------------ the agent against stubbed services
\* Worlds in which every call behaves one way: every call succeeds and the chat
\* completion gives one kind of response, or every call succeeds except the
\* download, which throws.
Scenarios ==
    { [AnyWorld EXCEPT !.calls = "ok", !.download = "ok", !.textgen = t] :
          t \in Responses \cup PartialResponses }
      \cup { [AnyWorld EXCEPT !.calls = "ok", !.download = "throws",
                              !.textgen = "json"] }

\* The rows extractVideoData accepts.
WellFormedPages == { k \in DOMAIN PagePool : ~extractVideoData(1, PagePool[k]).threw }

\* The agent after start() with every required toolkit connected, polling a
\* database of well-formed "Not started" rows.
ScenarioInit ==
    /\ pub = NoSession
    /\ world \in Scenarios
    /\ probe = NoProbe
    /\ status = [r \in Rows |-> "Not started"]
    /\ props \in [Rows -> WellFormedPages]
    /\ fields = [r \in Rows |-> NoFields]
    /\ isRunning = TRUE
    /\ connections = Required
    /\ pollingInterval = 1
    /\ timers = {1}
    /\ starting = 0
    /\ startCount = 1
    /\ cyc = [c \in Slots |-> IdleSlot]

ScenarioNext ==
    \/ \E c \in Slots : Tick(c)
    \/ \E c \in Slots : CycleStep(c)

ScenarioSpec == ScenarioInit /\ [][ScenarioNext]_vars

\* --------------------------------------- functions applied on their own
\* The items a title array and a rich_text array may hold.
TitleItems == {"", "null", "T"}

RichTextItems == {"", "null", "R"}

ArraysOf(items) ==
    {<<>>} \cup { <<a>> : a \in items } \cup { <<a, b>> : a \in items, b \in items }

\* The property objects getTextFromProperty may be given.
Properties ==
    {NoProperty, [type |-> "select"]}
      \cup { [title |-> t] : t \in ArraysOf(TitleItems) }
      \cup { [rich_text |-> u] : u \in ArraysOf(RichTextItems) }
      \cup { [title |-> t, rich_text |-> u] :
                t \in ArraysOf(TitleItems), u \in ArraysOf(RichTextItems) }

\* The links a "Drive Link" may hold for an asset.
LinksOf(id) == {ShareableLink(id), DirectLink(id)}

\* What the generated fields of a row may hold.
FieldPool ==
    { NoFields,
      [title |-> "generated title", description |-> "generated description",
       link |-> "none"],
      [title |-> "old title", description |-> "old description",
       link |-> "watch?v=id"] }

Titles == {"generated title", "cat video - Automated Upload"}

Descriptions == {"generated description", "Video about: cat video"}

\* data.publishDate as the scheduling revision's extractVideoData gives it: a
\* text with a time zone (the date property's start, or new Date().toISOString()),
\* a date joined to the default publish time (no zone: local time), or a text
\* Date cannot parse; `time` is the instant the text denotes.
PublishDates ==
    { [form |-> f, time |-> t] : f \in {"utc", "local"}, t \in 0..MaxTime }
      \cup { [form |-> "unparsable", time |-> 0] }

\* new Date(text): the instant, or an invalid Date.
DateOf(text) ==
    IF text.form = "unparsable"
    THEN [valid |-> FALSE, time |-> 0]
    ELSE [valid |-> TRUE, time |-> text.time]

\* date.toISOString(): the instant's text in UTC.
ISOStringOf(date) == [form |-> "utc", time |-> date.time]

\* Variant of the scheduling logic that publishes at once only when the publish
\* date is strictly before the current time.
youtubeStatusStrictlyBefore(publishDate, now) ==
    LET publishDateTime == DateOf(publishDate)
    IN  IF publishDateTime.valid /\ publishDateTime.time < now
        THEN [threw |-> FALSE, status |-> [privacyStatus |-> "public"]]
        ELSE IF publishDateTime.valid
             THEN [threw |-> FALSE,
                   status |-> [privacyStatus |-> "private",
                               publishAt |-> ISOStringOf(publishDateTime)]]
             ELSE [threw |-> TRUE, status |-> [privacyStatus |-> "none"]]

\* The scheduling logic of uploadToYouTube (scheduling revision): the status
\* object of the upload.  An invalid Date compares false with `now`, so the else
\* branch is taken and toISOString throws a RangeError.
youtubeStatus(publishDate, now) ==
    LET publishDateTime == DateOf(publishDate)
    IN  IF publishDateTime.valid /\ publishDateTime.time <= now
        THEN [threw |-> FALSE, status |-> [privacyStatus |-> "public"]]
        ELSE IF publishDateTime.valid
             THEN [threw |-> FALSE,
                   status |-> [privacyStatus |-> "private",
                               publishAt |-> ISOStringOf(publishDateTime)]]
             ELSE [threw |-> TRUE, status |-> [privacyStatus |-> "none"]]

\* One function and the input it is applied to.
Probes ==
    { [fn |-> "getTextFromProperty", in |-> p, applied |-> FALSE, out |-> ""] :
          p \in Properties }
      \cup UNION { { [fn |-> "extractFileIdFromDriveUrl", in |-> l, asset |-> id,
                      applied |-> FALSE, out |-> [threw |-> FALSE, id |-> ""]] :
                         l \in LinksOf(id) } : id \in FileIds }
      \cup { [fn |-> "updateNotionWithMetadata", row |-> r, title |-> t,
              description |-> d, times |-> 0] :
                 r \in Rows, t \in Titles, d \in Descriptions }
      \cup { [fn |-> "uploadToYouTube", publishDate |-> d, now |-> n,
              applied |-> FALSE,
              out |-> [threw |-> FALSE, status |-> [privacyStatus |-> "none"]]] :
                 d \in PublishDates, n \in 0..MaxTime }

FunctionInit ==
    /\ pub = NoSession
    /\ world = AnyWorld
    /\ probe \in Probes
    /\ status \in [Rows -> StatusNames]
    /\ props = [r \in Rows |-> 1]
    /\ fields \in [Rows -> FieldPool]
    /\ isRunning = FALSE
    /\ connections = {}
    /\ pollingInterval = 0
    /\ timers = {}
    /\ starting = 0
    /\ startCount = 0
    /\ cyc = [c \in Slots |-> IdleSlot]

FunctionFrame == <<props, pub, world, isRunning, connections, pollingInterval,
                   timers, starting, startCount, cyc>>

\* this.getTextFromProperty(property)
ApplyGetTextFromProperty ==
    /\ probe.fn = "getTextFromProperty"
    /\ ~probe.applied
    /\ probe' = [probe EXCEPT !.applied = TRUE,
                              !.out = getTextFromProperty(probe.in)]
    /\ UNCHANGED <<status, fields, FunctionFrame>>

\* this.extractFileIdFromDriveUrl(driveLink)
ApplyExtractFileId ==
    /\ probe.fn = "extractFileIdFromDriveUrl"
    /\ ~probe.applied
    /\ probe' = [probe EXCEPT !.applied = TRUE,
                              !.out = extractFileIdFromDriveUrl(probe.in)]
    /\ UNCHANGED <<status, fields, FunctionFrame>>

\* await this.updateNotionWithMetadata(pageId, title, description), a first and
\* a second time with the same arguments.
ApplyUpdateNotionWithMetadata ==
    /\ probe.fn = "updateNotionWithMetadata"
    /\ probe.times < 2
    /\ updateNotionPage(probe.row,
                        MetadataProperties(probe.title, probe.description))
    /\ probe' = [probe EXCEPT !.times = probe.times + 1]
    /\ UNCHANGED FunctionFrame

\* uploadToYouTube of the scheduling revision, up to the status object it sends.
ApplyYoutubeStatus ==
    /\ probe.fn = "uploadToYouTube"
    /\ ~probe.applied
    /\ probe' = [probe EXCEPT !.applied = TRUE,
                              !.out = youtubeStatus(probe.publishDate, probe.now)]
    /\ UNCHANGED <<status, fields, FunctionFrame>>

FunctionNext ==
    \/ ApplyGetTextFromProperty
    \/ ApplyExtractFileId
    \/ ApplyUpdateNotionWithMetadata
    \/ ApplyYoutubeStatus

FunctionSpec == FunctionInit /\ [][FunctionNext]_vars

\* ================================================================ claims
EntrySteps ==
    {"inProgress", "download", "schedule", "generate", "writeMeta", "upload",
     "writeLink", "done", "error"}

\* The calls processEntry makes after the "In progress" write.
AfterInProgress ==
    {"download", "schedule", "generate", "writeMeta", "upload", "writeLink", "done"}

\* The rows a cycle's filter kept.
PageRows(c) == { cyc[c].pages[i].id : i \in 1..Len(cyc[c].pages) }

HasEntry(c) == cyc[c].idx >= 1

Logged(c, op, res) ==
    \E i \in 1..Len(cyc[c].log) : cyc[c].log[i] = Entry(op, res)

\* C1: once a cycle has finished, every row its query returned as "Not started"
\* has Status Done or Error.
C1_FinishedCycleLeavesDoneOrError ==
    \A c \in Slots :
        cyc[c].pc = "finished" =>
            \A r \in PageRows(c) : status[r] \in {"Done", "Error"}

\* C2: when a call of processEntry after the "In progress" write throws, the
\* Error write is issued for the row (it is in flight, or logged right after the
\* failed call) and the entry's log holds no successful Done write.
C2_ThrowLeadsToErrorWrite ==
    \A c \in Slots :
        \A i \in 1..Len(cyc[c].log) :
            (cyc[c].log[i].op \in AfterInProgress /\ cyc[c].log[i].res # "ok") =>
                /\ \/ i = Len(cyc[c].log) /\ cyc[c].pc = "error"
                   \/ /\ i + 1 = Len(cyc[c].log)
                      /\ cyc[c].log[i + 1].op = "error"
                      /\ cyc[c].pc = "finished"
                /\ ~Logged(c, "done", "ok")

\* C2 witness: an upload threw and the row was then marked Error.
C2_Witness ==
    \E c \in Slots :
        /\ cyc[c].pc = "finished"
        /\ Len(cyc[c].log) >= 2
        /\ cyc[c].log[Len(cyc[c].log) - 1] = Entry("upload", "fail")
        /\ cyc[c].log[Len(cyc[c].log)] = Entry("error", "ok")
        /\ status[Cur(c)] = "Error"

\* C3: no exception leaves processEntry, and a finished cycle has handed every
\* page its filter kept to processEntry.
C3_NoEscapeAllPagesProcessed ==
    \A c \in Slots :
        cyc[c].pc = "finished" =>
            /\ cyc[c].caught # "entry"
            /\ cyc[c].idx = Len(cyc[c].pages)

\* C4: at most one processEntry execution is in flight at any time.
C4_OneEntryInFlight ==
    Cardinality({ c \in Slots : cyc[c].pc \in EntrySteps }) <= 1

\* C5: Status writes only move a row forward: a row marked Done or Error is never
\* written "In progress", and a row marked Done is never written Error.
C5_StatusOnlyForward ==
    [][\A r \in Rows :
          /\ status[r] \in {"Done", "Error"} => status'[r] # "In progress"
          /\ status[r] = "Done" => status'[r] # "Error"]_vars

\* C6: the "In progress" write is the first call of every entry: it heads the
\* entry's log, and every later call of the pipeline is issued only after it
\* succeeded.
C6_InProgressWriteFirst ==
    \A c \in Slots :
        /\ cyc[c].log # <<>> => cyc[c].log[1].op = "inProgress"
        /\ (cyc[c].pc \in AfterInProgress \/ cyc[c].pc = "error") =>
               /\ cyc[c].log # <<>>
               /\ cyc[c].log[1].op = "inProgress"
        /\ (cyc[c].pc \in AfterInProgress
              \/ \E i \in 1..Len(cyc[c].log) : cyc[c].log[i].op \in AfterInProgress) =>
               /\ cyc[c].log # <<>>
               /\ cyc[c].log[1] = Entry("inProgress", "ok")

\* C6 witness: the download is in flight and the only call made before it is
\* the successful "In progress" write.
C6_Witness ==
    \E c \in Slots :
        /\ cyc[c].pc = "download"
        /\ cyc[c].log = <<Entry("inProgress", "ok")>>
        /\ status[Cur(c)] = "In progress"

\* C7: a Done write is issued only after, in this order, the metadata write, the
\* upload and the link write of the same entry succeeded; when Done has just been
\* written the row holds the metadata and the link.
C7_DoneAfterMetaUploadLink ==
    \A c \in Slots :
        /\ (cyc[c].pc = "done" \/ Logged(c, "done", "ok") \/ Logged(c, "done", "fail")) =>
               \E j, k, l \in 1..Len(cyc[c].log) :
                   /\ j < k /\ k < l
                   /\ cyc[c].log[j] = Entry("writeMeta", "ok")
                   /\ cyc[c].log[k] = Entry("upload", "ok")
                   /\ cyc[c].log[l] = Entry("writeLink", "ok")
                   /\ \A m \in 1..Len(cyc[c].log) :
                          cyc[c].log[m].op = "done" => l < m
        /\ (cyc[c].pc = "finished" /\ Logged(c, "done", "ok")) =>
               /\ fields[Cur(c)].title # "none"
               /\ fields[Cur(c)].description # "none"
               /\ fields[Cur(c)].link # "none"

\* C7 witness: an entry has just been marked Done.
C7_Witness ==
    \E c \in Slots :
        /\ cyc[c].pc = "finished"
        /\ Logged(c, "done", "ok")
        /\ status[Cur(c)] = "Done"

\* C8: a row whose Drive link yields no file identifier ends with Status Error
\* once the cycle that took it has finished.
C8_UnparsableLinkMarkedError ==
    \A c \in Slots :
        (/\ cyc[c].pc = "finished"
         /\ HasEntry(c)
         /\ extractFileIdFromDriveUrl(pageProperties(Cur(c)).link).threw) =>
            status[Cur(c)] = "Error"

\* C9: while the agent runs and its query succeeds, every row that is
\* "Not started" (and whose own properties extraction accepts) is eventually
\* taken into processing: its "In progress" write is issued, whatever the other
\* rows of the query's result are.
C9_NotStartedEventuallyTaken ==
    \A r \in Rows :
        (/\ isRunning
         /\ "notion" \in connections
         /\ status[r] = "Not started"
         /\ ~extractVideoData(r, pageProperties(r)).threw)
            ~> (\/ status[r] # "Not started"
                \/ \E c \in Slots :
                       /\ cyc[c].pc = "inProgress"
                       /\ Cur(c) = r)

\* C10: processEntry is invoked only for pages whose Status in the query's
\* result was "Not started".
C10_OnlyNotStartedProcessed ==
    \A c \in Slots :
        \A i \in 1..Len(cyc[c].pages) :
            i <= cyc[c].idx => cyc[c].pages[i].status = "Not started"

\* C10 witness: a cycle processes row 2 alone while row 1, marked Error, was
\* left out by its filter.
C10_Witness ==
    \E c \in Slots :
        /\ cyc[c].pc = "inProgress"
        /\ PageRows(c) = {2}
        /\ status[1] = "Error"

\* C11: a failure of the metadata-generation step never aborts the entry: every
\* generateMetadata call of an entry returns metadata and is followed by the
\* metadata write.
C11_GenerationFailureNeverAborts ==
    \A c \in Slots :
        \A i \in 1..Len(cyc[c].log) :
            cyc[c].log[i].op = "generate" =>
                /\ cyc[c].log[i].res = "ok"
                /\ \/ i = Len(cyc[c].log) /\ cyc[c].pc = "writeMeta"
                   \/ i < Len(cyc[c].log) /\ cyc[c].log[i + 1].op = "writeMeta"

\* C12: the driver issues at most maxRetries status polls for a session; a poll
\* that returns FINISHED ends the polling with success and no poll is issued
\* after pollForMediaStatus has returned; when the last of maxRetries polls
\* returns a code that is neither FINISHED nor ERROR the driver gives up as
\* timed out, and it gives up as timed out only after maxRetries polls.
C12_PollBudget ==
    /\ [](pub.polls <= maxRetries)
    /\ [](pub.last = "FINISHED" =>
            /\ pub.pc \notin {"createContainer", "poll"}
            /\ pub.reason = "none"
            /\ pub.err # ProcessingError("timeout"))
    /\ [][pub.pc # "poll" => pub'.polls = pub.polls]_vars
    /\ []((pub.polls = maxRetries
            /\ pub.last \notin {"FINISHED", "ERROR", "throws", "none"}) =>
               /\ pub.reason = "timeout"
               /\ pub.pc \in {"error", "finished"}
               /\ pub.posts = 0)
    /\ [](pub.reason = "timeout" => pub.polls = maxRetries)

\* C12 witness: maxRetries polls were issued, the last one returned EXPIRED and
\* the driver gave up as timed out.
C12_Witness ==
    /\ pub.polls = maxRetries
    /\ pub.last = "EXPIRED"
    /\ pub.reason = "timeout"
    /\ pub.pc = "error"

\* C13: INSTAGRAM_CREATE_POST is issued only after a poll returned FINISHED;
\* once a poll returned ERROR no further poll and no CREATE_POST is issued, the
\* driver has failed and the row is not marked Done.
C13_FinalizeOnlyAfterFinished ==
    /\ []((pub.pc = "createPost" \/ pub.posts > 0) => pub.last = "FINISHED")
    /\ [](pub.last = "ERROR" =>
            /\ pub.pc \in {"error", "finished"}
            /\ pub.reason = "remote_error"
            /\ pub.posts = 0
            /\ status[PubRow] # "Done")
    /\ [][pub.last = "ERROR" =>
            /\ pub'.polls = pub.polls
            /\ pub'.last = "ERROR"
            /\ pub'.posts = 0]_vars

\* C13 witness: the second poll returned ERROR and the row was marked Error.
C13_Witness ==
    /\ pub.last = "ERROR"
    /\ pub.polls = 2
    /\ pub.pc = "finished"
    /\ status[PubRow] = "Error"

\* C14: once INSTAGRAM_CREATE_POST has returned a post id and the lookup of the
\* recent media has ended, the driver has returned a link (the permalink or the
\* placeholder) and has not thrown.
C14_LinkAlwaysReturned ==
    (pub.postId = "id" /\ pub.pc # "getUserMedia") =>
        /\ pub.link \in {"permalink", "https://www.instagram.com/"}
        /\ pub.err = "none" \/ pub.pc \in {"error", "finished"}

C16_FailureReasonDistinguished ==
    /\ pub.reason = "timeout" => pub.err # ProcessingError("remote_error")
    /\ pub.reason = "remote_error" => pub.err # ProcessingError("timeout")

\* C17: while the agent is stopped and no start() is under way no query is
\* issued; stop() leaves the suspended callbacks as they are; the next call of
\* an entry in flight can always be made, stopped or not; and an entry that is
\* in flight while the agent is stopped leaves processEntry only through its
\* Done write or its Error write, which sets the row's Status when the store
\* accepts it.
C17_StopOnlyPreventsNewCycles ==
    /\ [][(~isRunning /\ starting = 0) =>
            \A c \in Slots : cyc'[c].pc = "query" => cyc[c].pc = "query"]_vars
    /\ [][(isRunning /\ ~isRunning') => cyc' = cyc]_vars
    /\ [](\A c \in Slots :
            (~isRunning /\ cyc[c].pc \in EntrySteps) => ENABLED CycleStep(c))
    /\ [][\A c \in Slots :
            (/\ ~isRunning
             /\ cyc[c].pc \in EntrySteps
             /\ cyc'[c].pc \notin EntrySteps \/ cyc'[c].idx > cyc[c].idx) =>
                \/ cyc[c].pc = "done" /\ status'[Cur(c)] = "Done"
                \/ /\ cyc[c].pc = "error"
                   /\ status'[Cur(c)] = "Error" \/ cyc'[c].caught = "entry"]_vars

\* C17 witness: the agent is stopped and an entry is in its upload.
C17_Witness ==
    /\ ~isRunning
    /\ starting = 0
    /\ timers = {}
    /\ \E c \in Slots : cyc[c].pc = "upload"

\* C18: while the agent is running, a start() call changes nothing: no
\* initializeConnections is begun, and isRunning, the connections and the timer
\* stay as they are; while it is not running, a stop() call changes nothing.
C18_StartWhileRunningIsNoOp ==
    /\ [][(isRunning /\ isRunning') =>
            /\ starting' = starting
            /\ connections' = connections
            /\ pollingInterval' = pollingInterval
            /\ timers' = timers]_vars
    /\ [][(~isRunning /\ ~isRunning') =>
            /\ connections' = connections
            /\ pollingInterval' = pollingInterval
            /\ timers' = timers]_vars

\* C18 witness: start() was called a second time while the agent was running
\* on the timer of its first start.
C18_Witness ==
    /\ isRunning
    /\ startCount = 2
    /\ starting = 0
    /\ pollingInterval = 1
    /\ timers = {1}

\* C19: once the agent runs (with its queue-store connection), the timer keeps
\* starting cycles for ever, whatever the earlier cycles caught.
C19_PollingSurvivesErrors ==
    <>[](isRunning /\ "notion" \in connections)
        => []<><<\E c \in Slots : Tick(c)>>_vars

\* C19 witness: the agent runs and a cycle has ended in the handler of
\* findAndProcessNewEntries with an exception that left processEntry.
C19_Witness ==
    /\ isRunning
    /\ "notion" \in connections
    /\ \E c \in Slots : cyc[c].pc = "finished" /\ cyc[c].caught = "entry"

\* C20: the agent runs only when every capability it needs (queue store, asset
\* store, text generator, publishing target) has a connection.
C20_MissingToolkitFailsStart ==
    isRunning => {"notion", "googledrive", "openai", "youtube"} \subseteq connections

C22_ErrorWriteKeepsFields ==
    [][\A c \in Slots :
          (cyc[c].pc = "error" /\ cyc'[c] # cyc[c]) =>
              /\ fields' = fields
              /\ props' = props
              /\ \A r \in Rows : r # Cur(c) => status'[r] = status[r]]_vars

\* C22 witness: the upload failed after the metadata was written; the row is
\* marked Error and still holds the title.
C22_Witness ==
    \E c \in Slots :
        /\ cyc[c].pc = "finished"
        /\ Logged(c, "writeMeta", "ok")
        /\ Logged(c, "upload", "fail")
        /\ Logged(c, "error", "ok")
        /\ status[Cur(c)] = "Error"
        /\ fields[Cur(c)].title # "none"

\* C23: where the download throws (and every other call succeeds), no entry
\* gets past the download: no text generation, no metadata or link write, no
\* upload; no row holds a title, a description or a link; and a row that was
\* taken is marked Error once no callback is working on it.
C23_DownloadFailureMarksError ==
    world.download = "throws" =>
        /\ \A c \in Slots :
              /\ cyc[c].pc \notin {"schedule", "generate", "writeMeta", "upload",
                                   "writeLink", "done"}
              /\ \A i \in 1..Len(cyc[c].log) :
                     cyc[c].log[i].op \in {"inProgress", "download", "error"}
              /\ \A i \in 1..cyc[c].idx :
                     (i < cyc[c].idx \/ cyc[c].pc = "finished") =>
                         status[cyc[c].pages[i].id] \in {"In progress", "Error"}
        /\ \A r \in Rows :
              /\ fields[r] = NoFields
              /\ status[r] # "Done"
              /\ status[r] = "In progress" =>
                     \E c \in Slots : cyc[c].pc \in EntrySteps /\ Cur(c) = r

\* C23 witness: the download threw for every row and every row is marked Error.
C23_Witness ==
    /\ world.download = "throws"
    /\ \A r \in Rows : status[r] = "Error"
    /\ \E c \in Slots : Logged(c, "download", "fail") /\ Logged(c, "error", "ok")

\* The brief extractVideoData reads from a row.
BriefOf(r) == getTextFromProperty(pageProperties(r).brief)

\* C24: where the chat completion throws, returns an empty text or returns a
\* text that is not JSON (and every other call succeeds), the metadata of an
\* entry is the brief followed by " - Automated Upload" and "Video about: "
\* followed by the brief, no entry fails, and a row marked Done holds that title
\* and description.
C24_FallbackMetadataExact ==
    (world.textgen \in {"empty", "not_json", "throws"} /\ world.download = "ok") =>
        /\ \A c \in Slots :
              /\ cyc[c].pc # "error"
              /\ ~Logged(c, "error", "ok")
              /\ cyc[c].pc \in {"writeMeta", "upload", "writeLink", "done"} =>
                    /\ cyc[c].meta.title = BriefOf(Cur(c)) \o " - Automated Upload"
                    /\ cyc[c].meta.description = "Video about: " \o BriefOf(Cur(c))
        /\ \A r \in Rows :
              /\ status[r] # "Error"
              /\ status[r] = "Done" =>
                    /\ fields[r].title = BriefOf(r) \o " - Automated Upload"
                    /\ fields[r].description = "Video about: " \o BriefOf(r)
              /\ fields[r].title \in {"none", BriefOf(r) \o " - Automated Upload"}

\* C24 witness: the chat completion threw and every row is Done with the
\* fallback title.
C24_Witness ==
    /\ world.textgen = "throws"
    /\ \A r \in Rows :
          /\ status[r] = "Done"
          /\ fields[r].title = "cat video - Automated Upload"

\* C25: where every call succeeds and the chat completion returns the JSON of a
\* title and a description, no entry fails; a row marked Done holds exactly that
\* title, that description and the link uploadToYouTube returned; and a row
\* that was taken is Done once no callback is working on it.
C25_SuccessWritesExactValues ==
    (world.calls = "ok" /\ world.download = "ok" /\ world.textgen = "json") =>
        /\ \A c \in Slots :
              /\ cyc[c].pc # "error"
              /\ \A i \in 1..Len(cyc[c].log) : cyc[c].log[i].res = "ok"
              /\ \A i \in 1..cyc[c].idx :
                     (i < cyc[c].idx \/ cyc[c].pc = "finished") =>
                         status[cyc[c].pages[i].id] \in {"In progress", "Done"}
        /\ \A r \in Rows :
              /\ status[r] # "Error"
              /\ status[r] = "Done" =>
                    /\ fields[r].title = "generated title"
                    /\ fields[r].description = "generated description"
                    /\ fields[r].link = "watch?v=id"
              /\ status[r] = "In progress" =>
                     \E c \in Slots : cyc[c].pc \in EntrySteps /\ Cur(c) = r

\* C25 witness: every row is Done with the generated title and the link, and no
\* callback is at work.
C25_Witness ==
    /\ world.textgen = "json"
    /\ world.download = "ok"
    /\ \A c \in Slots : cyc[c].pc \in {"idle", "finished"}
    /\ \A r \in Rows :
          /\ status[r] = "Done"
          /\ fields[r].title = "generated title"
          /\ fields[r].link = "watch?v=id"

\* C26: whatever the "Publish Date" of a row holds (nothing, a date, a
\* timestamp, text that is no date), extractVideoData does not throw because of
\* it: a row whose link is parsable is never the row at which a cycle ended with
\* an exception before the entry's first call.
C26_DateNeverFailsExtraction ==
    \A c \in Slots :
        (HasEntry(c) /\ ~extractFileIdFromDriveUrl(pageProperties(Cur(c)).link).threw) =>
            ~(cyc[c].pc = "finished" /\ cyc[c].caught = "entry" /\ cyc[c].log = <<>>)

\* The text of the first item of an array of a property, "" without one.
FirstText(property, key) ==
    IF key \in DOMAIN property /\ Len(property[key]) > 0 /\ property[key][1] # "null"
    THEN property[key][1]
    ELSE ""

\* C27: getTextFromProperty returns the title's text when it is not empty,
\* otherwise the rich text's text when it is not empty, otherwise "".
C27_FirstNonEmptyText ==
    (probe.fn = "getTextFromProperty" /\ probe.applied) =>
        probe.out = IF FirstText(probe.in, "title") # ""
                    THEN FirstText(probe.in, "title")
                    ELSE FirstText(probe.in, "rich_text")

\* C28: for an asset's shareable link and for its direct link,
\* extractFileIdFromDriveUrl returns the asset's identifier.
C28_SameIdFromEveryLinkShape ==
    (probe.fn = "extractFileIdFromDriveUrl" /\ probe.applied) =>
        /\ ~probe.out.threw
        /\ probe.out.id = probe.asset

C30_NoRowProcessedTwice ==
    \A c \in Slots :
        cyc[c].pc \in EntrySteps =>
            /\ \A d \in Slots \ {c} : cyc[d].pc \in EntrySteps => Cur(d) # Cur(c)
            /\ cyc[c].pc = "inProgress" => status[Cur(c)] = "Not started"

\* C31: after any interleaving of start() and stop() calls, a second start()
\* made before the first one's connection initialization completed included,
\* at most one polling timer is armed, and none is once stop() has returned
\* and no start() is pending.
C31_AtMostOneTimer ==
    /\ Cardinality(timers) <= 1
    /\ (~isRunning /\ starting = 0) => timers = {}

\* C32: when connection initialization throws during start() (the listing
\* shows no ACTIVE connection), start() ends there: no timer is created,
\* isRunning stays false, the connection map and pollingInterval are as they
\* were, and the agent is stopped with no timer, so start() can be called again.
C32_FailedStartLeavesStopped ==
    [][ (starting' < starting /\ timers' = timers) =>
            /\ ~isRunning'
            /\ timers' = {}
            /\ pollingInterval' = pollingInterval
            /\ connections' = connections ]_vars

\* A second start() is suspended in initializeConnections after the first one
\* failed: nothing was ever connected and no timer is armed.
C32_Witness ==
    /\ startCount = 2
    /\ starting = 1
    /\ ~isRunning
    /\ connections = {}
    /\ timers = {}
    /\ pollingInterval = 0

\* C33: after every start() that succeeds, the connection map holds exactly
\* the toolkits that were ACTIVE in that start's listing: no entry of an
\* earlier run survives a stop() and start() once its connection is no longer
\* listed.
C33_MapHoldsOnlyListed ==
    [][ (~isRunning /\ isRunning') => connections' \in ListingsNow ]_vars

\* C34: whatever the text-generation response is, the title and the
\* description generateMetadata returns, which are then written to the row and
\* uploaded, are both present: a response that is valid JSON without a title or
\* without a description never leaves a missing value in the metadata of the
\* entry or in the row.
C34_MetadataAlwaysPresent ==
    /\ \A c \in Slots :
         /\ cyc[c].meta.title # "undefined"
         /\ cyc[c].meta.description # "undefined"
    /\ \A r \in Rows :
         /\ fields[r].title # "undefined"
         /\ fields[r].description # "undefined"

\* The entry slot c is in, or just left, failed at scheduleEvent.
ScheduleFailed(c) ==
    Logged(c, "schedule", "fail") \/ Logged(c, "schedule", "unissued")

\* C35: when creating the calendar event fails, or the calendar connection is
\* missing, the entry stops there: it issues no text generation, no metadata
\* write, no upload, no link write and no Done write, and goes to its Error
\* write; that write sets the row's Status to Error when the store accepts it,
\* and the file the entry downloaded is removed when the entry returns.
C35_CalendarFailureStopsEntry ==
    /\ [](\A c \in Slots :
            ScheduleFailed(c) =>
                /\ \A i \in 1..Len(cyc[c].log) :
                       cyc[c].log[i].op \notin
                           {"generate", "writeMeta", "upload", "writeLink", "done"}
                /\ cyc[c].meta = NoMeta
                /\ cyc[c].url = "none"
                /\ \/ cyc[c].pc = "error"
                   \/ /\ cyc[c].pc = "finished"
                      /\ cyc[c].log[Len(cyc[c].log)].op = "error"
                      /\ ~cyc[c].file)
    /\ [][\A c \in Slots :
            (/\ cyc[c].pc = "error"
             /\ ScheduleFailed(c)
             /\ cyc'[c] # cyc[c]) =>
                /\ ~cyc'[c].file
                /\ fields'[Cur(c)] = fields[Cur(c)]
                /\ \/ status'[Cur(c)] = "Error"
                   \/ /\ cyc'[c].caught = "entry"
                      /\ cyc'[c].log[Len(cyc'[c].log)].res # "ok"]_vars

\* C35 witness: an entry downloaded its file, the calendar call threw, and the
\* entry ended with the row marked Error, nothing generated and no file left.
C35_Witness ==
    \E c \in Slots :
        /\ cyc[c].pc = "finished"
        /\ Logged(c, "download", "ok")
        /\ cyc[c].log[Len(cyc[c].log) - 1] = Entry("schedule", "fail")
        /\ cyc[c].log[Len(cyc[c].log)] = Entry("error", "ok")
        /\ status[Cur(c)] = "Error"
        /\ fields[Cur(c)] = NoFields
        /\ ~cyc[c].file

\* The query's response holds no row to process: no row at all, or no row
\* whose Status is "Not started".
NoNewRow == world.results = "none" \/ \A r \in Rows : status[r] # "Not started"

\* C36: a cycle whose query returns no rows, or no "Not started" row, ends
\* there: it hands no page to processEntry, so it issues no queue-store update
\* and no download, calendar, text-generation or upload call, and it leaves
\* every row as it was.
C36_EmptyCycleChangesNothing ==
    [][\A c \in Slots :
          (/\ cyc[c].pc = "query"
           /\ cyc'[c] # cyc[c]
           /\ cyc'[c].caught # "poll"
           /\ NoNewRow) =>
              /\ cyc'[c].pc = "finished"
              /\ cyc'[c].caught = "none"
              /\ cyc'[c].pages = <<>>
              /\ cyc'[c].idx = 0
              /\ cyc'[c].log = <<>>
              /\ status' = status
              /\ fields' = fields
              /\ props' = props]_vars

\* C36 witness: a cycle has ended with nothing to process while the rows, all
\* handled by an earlier cycle, keep their Status and their generated fields.
C36_Witness ==
    \E c \in Slots :
        /\ cyc[c].pc = "finished"
        /\ cyc[c].caught = "none"
        /\ cyc[c].pages = <<>>
        /\ world.results = "rows"
        /\ \A r \in Rows : status[r] \in {"Done", "Error"}
        /\ \E r \in Rows : status[r] = "Done" /\ fields[r].link # "none"

\* C37: in the scheduling upload variant, a publish date at or before the
\* current time gives the status "public" with no publishAt, and a later one
\* gives the status "private" with a publishAt that denotes the publish date's
\* instant.
C37_ScheduledTimeDecidesMode ==
    (/\ probe.fn = "uploadToYouTube"
     /\ probe.applied
     /\ DateOf(probe.publishDate).valid) =>
        /\ ~probe.out.threw
        /\ IF DateOf(probe.publishDate).time <= probe.now
           THEN /\ probe.out.status.privacyStatus = "public"
                /\ "publishAt" \notin DOMAIN probe.out.status
           ELSE /\ probe.out.status.privacyStatus = "private"
                /\ "publishAt" \in DOMAIN probe.out.status
                /\ DateOf(probe.out.status.publishAt) = DateOf(probe.publishDate)

\* C37 witness: the logic was applied to a publish date given in local time that
\* denotes the current instant, and the upload is public.
C37_Witness ==
    /\ probe.fn = "uploadToYouTube"
    /\ probe.applied
    /\ probe.publishDate.form = "local"
    /\ probe.publishDate.time = probe.now
    /\ probe.out.status = [privacyStatus |-> "public"]


====
